---- MODULE Spec2Model ----
(***************************************************************************)
(* Model of the Quanergy M8 client (src/src/m8_client.cpp,                 *)
(* src/include/m8_client.h): the sweep assembler toPointClouds, the packet *)
(* queue between the reader thread and the queue-consumer thread, and the  *)
(* start/stop life cycle of the two threads.                               *)
(*                                                                         *)
(* These specifications share the variables:                               *)
(*   SpecAsm    packets are handed to toPointClouds one after the other    *)
(*   SpecRaw    the same with packets holding any 16-bit position values   *)
(*   SpecStatic the same with the packets of a sensor that does not spin   *)
(*   SpecQueue  enqueueM8Packet, dequeue, toPointClouds as atomic calls    *)
(*   Spec       caller, reader thread and queue-consumer thread interleave *)
(*   LiveSpec   Spec with the fairness of a fair thread scheduler          *)
(***************************************************************************)
EXTENDS Integers, Sequences, FiniteSets, TLC

----------------------------------------------------------------------------
(* Program constants                                                       *)

M8_NUM_ROT_ANGLES == 10400

M8_FIRING_PER_PKT == 50

M8_PACKET_BYTES == 6612

M8_NUM_LASERS == 8

\* m8_client.cpp:193,195  the wraparound threshold of the direction test
WRAP_DELTA == 4000

\* m8_client.cpp:79  enqueueM8Packet drops while data_queue_.size() > 1000
QUEUE_LIMIT == 1000

\* m8_client.cpp:205  modulus of the positions synthesized when not spinning
STATIC_MODULUS == 1000

\* m8_client.cpp:18  last_azimuth_ (65000), in degrees
LAST_AZIMUTH_INIT == 65000

\* uint32_t scan_counter_ (m8_client.h:163): 2^16, half the width of the counter.
\* The model checker's integers are 32 bits wide, so that the 32-bit product of
\* m8_client.cpp:205 is computed on 16-bit halves.
HALF_WORD == 65536

----------------------------------------------------------------------------
(* Bounds of the model                                                     *)

\* packets handed to toPointClouds in SpecAsm
MaxFeeds == 3

----------------------------------------------------------------------------
VARIABLES
  \* assembler state (m8_client.h:142-165)
  last_azimuth_,        \* in units of 1/10400 degree (exact integer arithmetic)
  scan_counter_,
  sweep_counter_,
  current_sweep_xyzi_,  \* the cloud under construction
  num_slots,            \* sweep_xyzi_signal_->num_slots ()
  fired,                \* clouds the signal delivered during the last toPointClouds
  num_fired,            \* clouds the signal delivered so far
  fed,                  \* history: the packets passed to toPointClouds, in order
  organize_arg,         \* history: <<the cloud organizeCloud was last called on>>
  allocated,            \* history: PointCloud objects toPointClouds has created
  delivered_objs,       \* history: the PointCloud objects handed to the signal
  max_lookup,           \* history: the largest index used on the lookup tables
  crashed               \* the process has been killed by a read outside a table

VARIABLES
  \* pcl::SynchronizedQueue<unsigned char *> data_queue_ (m8_client.h:129)
  queue_,               \* the queued buffers, oldest first
  request_to_end_,      \* set by stopQueue
  enqueue_data_,        \* cleared when dequeue has seen request_to_end_
  dropped_packets_,     \* m8_client.h:161
  accepted,             \* history: the buffers enqueueM8Packet put in the queue
  shutdown_mark,        \* history: Len(accepted) when stopQueue first ran, -1 before
  pushes,               \* history: calls of enqueueM8Packet with 6612 bytes
  bad_pushes,           \* history: calls of enqueueM8Packet with another size
  pops                  \* history: successful calls of dequeue

VARIABLES
  \* threads and socket (m8_client.h:123,137-141)
  terminate_read_packet_thread_,
  read_packet_thread_,     \* "NULL" or "thread"
  queue_consumer_thread_,  \* "NULL" or "thread"
  read_socket_,            \* "NULL" or "socket"
  reader_pc,               \* where the thread running read() is
  reader_data,             \* the local buffer data of read(): <<>> or <<buffer>>
  consumer_pc,             \* where the thread running processM8Packets() is
  consumer_data,           \* the local data of processM8Packets(): <<>> or <<buffer>>
  caller_pc,               \* where the thread calling start() and stop() is
  returned,                \* history: the last call that returned to the caller
  received                 \* number of packets the socket has delivered

VARIABLES
  \* the objects start () and stop () create and release
  resources,               \* history: counts of new / join+delete per kind of object
  destructing,             \* the stop () in progress was called by ~M8Client ()
  stops                    \* history: calls of stop () that returned since the last
                           \* start (), counted up to MaxStopsCounted

asmVars == <<last_azimuth_, scan_counter_, sweep_counter_, current_sweep_xyzi_,
             num_slots, fired, num_fired, fed, organize_arg, allocated,
             delivered_objs, max_lookup, crashed>>

queueVars == <<queue_, request_to_end_, enqueue_data_, dropped_packets_,
               accepted, shutdown_mark, pushes, bad_pushes, pops>>

threadVars == <<terminate_read_packet_thread_, read_packet_thread_,
                queue_consumer_thread_, read_socket_, reader_pc, reader_data,
                consumer_pc, consumer_data, caller_pc, returned, received>>

lifeVars == <<resources, destructing, stops>>

vars == <<asmVars, queueVars, threadVars, lifeVars>>

----------------------------------------------------------------------------
(* Packets.  A buffer stands for one heap-allocated 6612-byte packet: id   *)
(* is its identity, (first, delta) describe the encoder positions of its   *)
(* 50 firings, which run from first to first + delta (mod 10400).          *)

Buffer(n, f, d) == [id |-> n, first |-> f, delta |-> d]

\* data_packet->data[i].position as received, i in 0..49: an unsigned short
\* (m8_client.h:77).  A packet whose first position is an encoder position
\* holds encoder positions (mod 10400); any other packet holds 16-bit values
\* as they come.
Position(buf, i) ==
  LET p == buf.first + ((buf.delta * i) \div (M8_FIRING_PER_PKT - 1))
  IN IF buf.first < M8_NUM_ROT_ANGLES THEN p % M8_NUM_ROT_ANGLES
                                      ELSE p % HALF_WORD

\* (scan_counter_ * M8_FIRING_PER_PKT + i) % 1000 in uint32_t arithmetic
\* (m8_client.cpp:205): the product wraps at 2^32 before the remainder is taken.
StaticPosition(scan, i) ==
  LET q == scan \div HALF_WORD
      r == scan % HALF_WORD
      lo == r * M8_FIRING_PER_PKT + i
      hi == (q * M8_FIRING_PER_PKT + (lo \div HALF_WORD)) % HALF_WORD
  IN ((hi % STATIC_MODULUS) * (HALF_WORD % STATIC_MODULUS) + (lo % HALF_WORD))
       % STATIC_MODULUS

\* data_packet->seconds * 1e9 + data_packet->nanoseconds
PacketTime(buf) == buf.id

Abs(x) == IF x < 0 THEN -x ELSE x

----------------------------------------------------------------------------
(* toPointClouds                                                           *)

\* m8_client.cpp:187
Spin(buf) ==
  ~(Abs(Position(buf, 0) - Position(buf, M8_FIRING_PER_PKT - 1))
      < (M8_FIRING_PER_PKT \div 10))

\* m8_client.cpp:188-198
Direction(buf) ==
  LET p0 == Position(buf, 0)
      pN == Position(buf, M8_FIRING_PER_PKT - 1)
  IN IF Spin(buf)
       THEN IF p0 - pN > 0
              THEN (IF p0 - pN > WRAP_DELTA THEN 1 ELSE -1)
              ELSE (IF pN - p0 > WRAP_DELTA THEN 1 ELSE -1)
       ELSE 1

\* m8_client.cpp:208; the result is scaled by 10400 so that it stays an integer:
\* ((p + 5200) % 10400) / 10400 * 360 - 180  degrees
AzimuthAngle(p) ==
  ((p + (M8_NUM_ROT_ANGLES \div 2)) % M8_NUM_ROT_ANGLES) * 360 - 180 * M8_NUM_ROT_ANGLES

\* new PointCloud: empty, header zeroed, is_dense true
EmptyCloud == [points |-> <<>>, is_dense |-> TRUE, seq |-> 0, stamp |-> 0,
               height |-> 0, width |-> 0, obj |-> 0]

\* Ring without the laser offset of m8_client.cpp:153-154
RingNoLaserOffset(pts, width, i) ==
  [j \in 1..width |-> pts[(j - 1) * M8_NUM_LASERS + 1]]

\* one ring of organizeCloud: the inner loop over j (m8_client.cpp:149-157)
Ring(pts, width, i) ==
  [j \in 1..width |-> pts[(j - 1) * M8_NUM_LASERS + i + 1]]

\* the outer loop of organizeCloud, i = M8_NUM_LASERS-1 down to 0 (m8_client.cpp:146-158)
RECURSIVE Rings(_, _, _)
Rings(pts, width, i) ==
  IF i < 0 THEN <<>> ELSE Ring(pts, width, i) \o Rings(pts, width, i - 1)

\* m8_client.cpp:133-164
OrganizeCloud(cloud) ==
  LET width == Len(cloud.points) \div M8_NUM_LASERS
  IN [cloud EXCEPT !.points = Rings(cloud.points, width, M8_NUM_LASERS - 1),
                   !.height = M8_NUM_LASERS,
                   !.width = width]

\* the points of one firing: the loop over the lasers (m8_client.cpp:244-260)
FiringPoints(p) == [j \in 1..M8_NUM_LASERS |-> [position |-> p, laser |-> j - 1]]

\* the tests of m8_client.cpp:210 and 212 taken together, without a test for
\* an empty cloud
CompleteAtBoundary(boundary, sweep) == boundary

\* a boundary was detected and the cloud holds points (m8_client.cpp:210, 212)
Complete(boundary, sweep) == boundary /\ Len(sweep.points) > 0

\* header.seq = the counter after its increment
StampedAfterIncrement(cloud, time, counter) ==
  [cloud EXCEPT !.stamp = time, !.seq = counter + 1]

\* header.stamp = time; header.seq = sweep_counter_  (m8_client.cpp:220-221)
Stamped(cloud, time, counter) == [cloud EXCEPT !.stamp = time, !.seq = counter]

\* the cloud of the next sweep made by clearing the object in use
ClearedCloud(sweep, n) == [EmptyCloud EXCEPT !.obj = sweep.obj]

\* current_sweep_xyzi_.reset (new PointCloud); is_dense = true
\* (m8_client.cpp:234-236): the (n+1)-th object created by toPointClouds
NewCloud(sweep, n) == [EmptyCloud EXCEPT !.obj = n + 1]

\* One iteration of the loop over the firings (m8_client.cpp:200-263).
\* st holds the members the loop writes; spin and direction are the locals set
\* before the loop, scan is scan_counter_, slots is num_slots.
Firing(st, buf, i, spin, direction, scan, time, slots) ==
  LET p == IF spin THEN Position(buf, i)
                   ELSE StaticPosition(scan, i)
      azimuth_angle == AzimuthAngle(p)
      boundary == direction * azimuth_angle < direction * st.last
      complete == Complete(boundary, st.sweep)
      done == Stamped(OrganizeCloud(st.sweep), time, st.counter)
      sweep1 == IF boundary THEN NewCloud(st.sweep, st.allocated) ELSE st.sweep
  IN [last      |-> azimuth_angle,
      sweep     |-> [sweep1 EXCEPT !.points = @ \o FiringPoints(p)],
      counter   |-> IF complete THEN st.counter + 1 ELSE st.counter,
      fired     |-> IF complete /\ slots > 0 THEN Append(st.fired, done) ELSE st.fired,
      arg       |-> IF complete THEN <<st.sweep>> ELSE st.arg,
      allocated |-> IF boundary THEN st.allocated + 1 ELSE st.allocated,
      delivered |-> IF complete /\ slots > 0
                      THEN st.delivered \cup {st.sweep.obj} ELSE st.delivered,
      lookup    |-> IF p > st.lookup THEN p ELSE st.lookup]

\* the loop over the firings, from firing i on (m8_client.cpp:200): the state
\* after the last firing.  (x ranges over the one state after firing i.)
RECURSIVE Firings(_, _, _, _, _, _, _, _)
Firings(st, buf, i, spin, direction, scan, time, slots) ==
  IF i >= M8_FIRING_PER_PKT THEN st
  ELSE CHOOSE r \in { Firings(x, buf, i + 1, spin, direction, scan, time, slots) :
                        x \in {Firing(st, buf, i, spin, direction, scan, time, slots)} } :
         TRUE

\* m8_client.cpp:167-264
ToPointClouds(buf) ==
  LET scan == scan_counter_ + 1
      st0 == [last |-> last_azimuth_, sweep |-> current_sweep_xyzi_,
              counter |-> sweep_counter_, fired |-> <<>>, arg |-> organize_arg,
              allocated |-> allocated, delivered |-> delivered_objs, lookup |-> 0]
  IN \E spin \in {Spin(buf)} : \E direction \in {Direction(buf)} :
     \E st \in {Firings(st0, buf, 0, spin, direction, scan,
                         PacketTime(buf), num_slots)} :
     /\ scan_counter_' = scan
     /\ last_azimuth_' = st.last
     /\ current_sweep_xyzi_' = st.sweep
     /\ sweep_counter_' = st.counter
     /\ fired' = st.fired
     /\ num_fired' = num_fired + Len(st.fired)
     /\ fed' = Append(fed, buf)
     /\ organize_arg' = st.arg
     /\ allocated' = st.allocated
     /\ delivered_objs' = st.delivered
     /\ max_lookup' = IF st.lookup > max_lookup THEN st.lookup ELSE max_lookup
     /\ crashed' \in IF st.lookup > M8_NUM_ROT_ANGLES THEN BOOLEAN ELSE {crashed}
     /\ UNCHANGED num_slots

----------------------------------------------------------------------------
(* data_queue_: pcl::SynchronizedQueue (pcl/io/impl/synchronized_queue.hpp,*)
(* included at m8_client.h:10).  Every operation holds the queue's mutex,  *)
(* so each is one step.                                                    *)
(*   enqueue    pushes while enqueue_data_ is set                          *)
(*   dequeue    waits while the queue is empty and request_to_end_ is not  *)
(*              set; with request_to_end_ set it clears enqueue_data_,     *)
(*              empties the queue and returns false; otherwise it pops the *)
(*              front and returns true                                     *)
(*   stopQueue  sets request_to_end_ and wakes the waiting thread          *)

\* data_queue_.size ()
QueueSize == Len(queue_)

\* data_queue_.isEmpty ()
QueueIsEmpty == queue_ = <<>>

\* data_queue_.enqueue (dup): the queue after the call
Enqueued(buf) == IF enqueue_data_ THEN Append(queue_, buf) ELSE queue_

\* data_queue_.dequeue (data) can return (it waits otherwise)
DequeueReady == queue_ # <<>> \/ request_to_end_

\* data_queue_.dequeue (data) returns true
DequeueSucceeds == ~request_to_end_

\* dequeue handing out the newest buffer instead of the oldest
DequeueBack == queue_[Len(queue_)]

\* the item dequeue hands out
DequeueFront == Head(queue_)

\* data_queue_.dequeue (data): the queue after the call
Dequeued == IF request_to_end_ THEN <<>> ELSE Tail(queue_)

\* the test of m8_client.cpp:79
QueueOverLimit == QueueSize > QUEUE_LIMIT

\* an enqueueM8Packet that makes room by dropping the oldest buffer
EnqueueDropOldest(buf, bytes_received) ==
  IF bytes_received = M8_PACKET_BYTES
    THEN IF QueueOverLimit
           THEN /\ dropped_packets_' = dropped_packets_ + 1
                /\ queue_' = Append(Tail(queue_), buf)
                /\ accepted' = Append(accepted, buf)
           ELSE /\ queue_' = Enqueued(buf)
                /\ accepted' = IF enqueue_data_ THEN Append(accepted, buf) ELSE accepted
                /\ UNCHANGED dropped_packets_
    ELSE UNCHANGED <<queue_, accepted, dropped_packets_>>

\* enqueueM8Packet (data, bytes_received) run without interruption
\* (m8_client.cpp:73-93)
EnqueueM8Packet(buf, bytes_received) ==
  IF bytes_received = M8_PACKET_BYTES
    THEN IF QueueOverLimit
           THEN /\ dropped_packets_' = dropped_packets_ + 1
                /\ UNCHANGED <<queue_, accepted>>
           ELSE /\ queue_' = Enqueued(buf)
                /\ accepted' = IF enqueue_data_ THEN Append(accepted, buf) ELSE accepted
                /\ UNCHANGED dropped_packets_
    ELSE UNCHANGED <<queue_, accepted, dropped_packets_>>

----------------------------------------------------------------------------
(* The state after the constructor (m8_client.cpp:8-41)                    *)

\* data_queue_ (), dropped_packets_ (0)
QueueInit ==
  /\ queue_ = <<>>
  /\ request_to_end_ = FALSE
  /\ enqueue_data_ = TRUE
  /\ dropped_packets_ = 0
  /\ accepted = <<>>
  /\ shutdown_mark = -1
  /\ pushes = 0
  /\ bad_pushes = 0
  /\ pops = 0

\* nothing created, nothing released
NoResources ==
  [starts |-> 0, threads_new |-> 0, threads_deleted |-> 0,
   sockets_new |-> 0, sockets_deleted |-> 0]

\* read_socket_ (NULL), queue_consumer_thread_ (NULL), read_packet_thread_ (NULL),
\* terminate_read_packet_thread_ (false)
ThreadInit ==
  /\ terminate_read_packet_thread_ = FALSE
  /\ read_packet_thread_ = "NULL"
  /\ queue_consumer_thread_ = "NULL"
  /\ read_socket_ = "NULL"
  /\ reader_pc = "none"
  /\ reader_data = <<>>
  /\ consumer_pc = "none"
  /\ consumer_data = <<>>
  /\ caller_pc = "idle"
  /\ returned = "constructor"
  /\ received = 0
  /\ resources = NoResources
  /\ destructing = FALSE
  /\ stops = 0

----------------------------------------------------------------------------
(* SpecAsm: a test harness hands packets to toPointClouds                  *)

\* (first, delta) of the packets the harness may feed
PacketShapes ==
  { <<0, 49>>, <<5150, 49>>, <<5200, 49>>, <<10399, 3>>, <<49, -49>>,
    <<5249, -49>>, <<20, -49>>, <<100, 0>> }

\* scan_counter_ is not initialized by the constructor (m8_client.cpp:10-23):
\* its first value is whatever the memory holds.  85899345 * 50 is the last
\* product below 2^32, and toPointClouds increments the counter before it
\* uses it.  (The counters are 32 bits wide and wrap at 2^32; no run of the
\* model is long enough to take a counter there.)
ScanCounterInit == {0, 19, 85899344}

AsmInit ==
  /\ last_azimuth_ = LAST_AZIMUTH_INIT * M8_NUM_ROT_ANGLES
  /\ scan_counter_ \in ScanCounterInit
  /\ sweep_counter_ = 0
  /\ current_sweep_xyzi_ = EmptyCloud
  /\ num_slots \in {0, 1}
  /\ fired = <<>>
  /\ num_fired = 0
  /\ fed = <<>>
  /\ organize_arg = <<>>
  /\ allocated = 0
  /\ delivered_objs = {}
  /\ max_lookup = 0
  /\ crashed = FALSE
  /\ QueueInit
  /\ ThreadInit

Feed ==
  /\ Len(fed) < MaxFeeds
  /\ ~crashed
  /\ \E s \in PacketShapes : ToPointClouds(Buffer(Len(fed) + 1, s[1], s[2]))
  /\ UNCHANGED <<queueVars, threadVars, lifeVars>>

SpecAsm == AsmInit /\ [][Feed]_vars

----------------------------------------------------------------------------
(* SpecRaw: the harness hands toPointClouds packets of the right size whose *)
(* position fields hold any 16-bit values                                  *)

\* (first, delta) of those packets
RawShapes ==
  { <<0, 49>>, <<10351, 49>>, <<10400, 49>>, <<10401, 0>>, <<65486, 49>>,
    <<20049, -49>> }

FeedRaw ==
  /\ Len(fed) < MaxFeeds
  /\ ~crashed
  /\ \E s \in RawShapes : ToPointClouds(Buffer(Len(fed) + 1, s[1], s[2]))
  /\ UNCHANGED <<queueVars, threadVars, lifeVars>>

SpecRaw == AsmInit /\ [][FeedRaw]_vars

----------------------------------------------------------------------------
(* SpecStatic: the harness hands toPointClouds the packets of a sensor     *)
(* that does not spin                                                      *)

\* packets of that stream
MaxStaticFeeds == 40

\* (first, delta) of the packets of a stream: first and last position differ
\* by less than 5
StaticShapes == { <<100, 0>>, <<7000, 4>> }

FeedStatic ==
  /\ Len(fed) < MaxStaticFeeds
  /\ ~crashed
  /\ \E s \in StaticShapes :
       /\ fed # <<>> => (s[1] = fed[1].first /\ s[2] = fed[1].delta)
       /\ ToPointClouds(Buffer(Len(fed) + 1, s[1], s[2]))
  /\ UNCHANGED <<queueVars, threadVars, lifeVars>>

SpecStatic == AsmInit /\ [][FeedStatic]_vars

----------------------------------------------------------------------------
(* SpecOrganize: organizeCloud applied to a sweep in collect order         *)

\* the largest number of firings of a sweep handed to organizeCloud
MaxWidth == 4

\* encoder positions of the firings of those sweeps
OrganizePositions == {0, 1, 5200}

\* the cloud toPointClouds has collected for the firings at positions ps
\* (m8_client.cpp:244-260 for each of them)
RECURSIVE Collected(_)
Collected(ps) ==
  IF ps = <<>> THEN <<>> ELSE FiringPoints(Head(ps)) \o Collected(Tail(ps))

OrganizeInit ==
  /\ last_azimuth_ = LAST_AZIMUTH_INIT * M8_NUM_ROT_ANGLES
  /\ scan_counter_ = 0
  /\ sweep_counter_ = 0
  /\ \E w \in 0..MaxWidth : \E ps \in [1..w -> OrganizePositions] :
        current_sweep_xyzi_ = [EmptyCloud EXCEPT !.points = Collected(ps)]
  /\ num_slots = 0
  /\ fired = <<>>
  /\ num_fired = 0
  /\ fed = <<>>
  /\ organize_arg = <<>>
  /\ allocated = 0
  /\ delivered_objs = {}
  /\ max_lookup = 0
  /\ crashed = FALSE
  /\ QueueInit
  /\ ThreadInit

\* organizeCloud (current_sweep_xyzi_)  (m8_client.cpp:217)
Organize ==
  /\ organize_arg = <<>>
  /\ organize_arg' = <<current_sweep_xyzi_>>
  /\ current_sweep_xyzi_' = OrganizeCloud(current_sweep_xyzi_)
  /\ UNCHANGED <<last_azimuth_, scan_counter_, sweep_counter_, num_slots, fired,
                 num_fired, fed, allocated, delivered_objs, max_lookup, crashed>>
  /\ UNCHANGED <<queueVars, threadVars, lifeVars>>

SpecOrganize == OrganizeInit /\ [][Organize]_vars

----------------------------------------------------------------------------
(* SpecQueue: the calls the two threads make on a new client, each taken  *)
(* as one step: enqueueM8Packet (called by read () only, m8_client.cpp:106, *)
(* in the reader thread) and the dequeue and toPointClouds of               *)
(* processM8Packets (the queue-consumer thread)                             *)

\* calls of enqueueM8Packet
MaxPushes == 1003

\* calls of dequeue
MaxPops == 2

\* calls of enqueueM8Packet with a size other than 6612
MaxBadPushes == 1

\* sizes of the short buffers pushed
BadSizes == {0, 6611, 6613}

QueueTestInit ==
  /\ AsmInit
  /\ num_slots = 1
  /\ scan_counter_ = 0

\* enqueueM8Packet (data, 6612)
Push ==
  /\ pushes < MaxPushes
  /\ EnqueueM8Packet(Buffer(pushes + 1, 0, M8_FIRING_PER_PKT - 1), M8_PACKET_BYTES)
  /\ pushes' = pushes + 1
  /\ UNCHANGED <<request_to_end_, enqueue_data_, shutdown_mark, bad_pushes, pops>>
  /\ UNCHANGED <<asmVars, threadVars, lifeVars>>

\* enqueueM8Packet (data, n) with n # 6612
PushWrongSize ==
  /\ bad_pushes < MaxBadPushes
  /\ \E n \in BadSizes : EnqueueM8Packet(Buffer(0, 0, 0), n)
  /\ bad_pushes' = bad_pushes + 1
  /\ UNCHANGED <<request_to_end_, enqueue_data_, shutdown_mark, pushes, pops>>
  /\ UNCHANGED <<asmVars, threadVars, lifeVars>>

\* a dequeue that counts the buffer it takes as dropped
PopCountingDrop ==
  /\ pops < MaxPops
  /\ queue_ # <<>>
  /\ consumer_data = <<>>
  /\ DequeueSucceeds
  /\ consumer_data' = <<DequeueFront>>
  /\ queue_' = Dequeued
  /\ pops' = pops + 1
  /\ dropped_packets_' = dropped_packets_ + 1
  /\ UNCHANGED <<request_to_end_, enqueue_data_, accepted,
                 shutdown_mark, pushes, bad_pushes>>
  /\ UNCHANGED <<asmVars, terminate_read_packet_thread_, read_packet_thread_,
                 queue_consumer_thread_, read_socket_, reader_pc, reader_data,
                 consumer_pc, caller_pc, returned, received>>
  /\ UNCHANGED lifeVars

\* processM8Packets (): data_queue_.dequeue (data) on a queue that holds a
\* buffer (m8_client.cpp:124)
Pop ==
  /\ pops < MaxPops
  /\ queue_ # <<>>
  /\ consumer_data = <<>>
  /\ DequeueSucceeds
  /\ consumer_data' = <<DequeueFront>>
  /\ queue_' = Dequeued
  /\ pops' = pops + 1
  /\ UNCHANGED <<request_to_end_, enqueue_data_, dropped_packets_, accepted,
                 shutdown_mark, pushes, bad_pushes>>
  /\ UNCHANGED <<asmVars, terminate_read_packet_thread_, read_packet_thread_,
                 queue_consumer_thread_, read_socket_, reader_pc, reader_data,
                 consumer_pc, caller_pc, returned, received>>
  /\ UNCHANGED lifeVars

\* processM8Packets (): toPointClouds (data); free (data)  (m8_client.cpp:127-128)
Process ==
  /\ consumer_data # <<>>
  /\ ToPointClouds(consumer_data[1])
  /\ consumer_data' = <<>>
  /\ UNCHANGED <<terminate_read_packet_thread_, read_packet_thread_,
                 queue_consumer_thread_, read_socket_, reader_pc, reader_data,
                 consumer_pc, caller_pc, returned, received>>
  /\ UNCHANGED <<queueVars, lifeVars>>

SpecQueue == QueueTestInit /\ [][Push \/ PushWrongSize \/ Pop \/ Process]_vars

----------------------------------------------------------------------------
(* Spec: the caller of start() and stop(), the thread running read() and   *)
(* the thread running processM8Packets()                                   *)

\* packets the sensor sends over the connection
MaxPackets == 3

\* calls of start ()
MaxStarts == 2

\* calls of stop () in a row that are told apart
MaxStopsCounted == 2

\* the n-th packet of the stream: the encoder advances one position per firing
StreamPacket(n) ==
  Buffer(n, ((n - 1) * M8_FIRING_PER_PKT) % M8_NUM_ROT_ANGLES, M8_FIRING_PER_PKT - 1)

\* isRunning ()  (m8_client.cpp:52-56)
IsRunning == ~QueueIsEmpty \/ read_packet_thread_ # "NULL"

Init ==
  /\ AsmInit
  /\ num_slots = 1

\* start ()  (m8_client.cpp:299-341).  The caller calls it on a new client or
\* after stop().  first and second tell whether the connect of line 316 and
\* the connect of line 327 succeed.
Start ==
  /\ caller_pc = "idle"
  /\ returned \in {"constructor", "stop"}
  /\ resources.starts < MaxStarts
  /\ \E first \in BOOLEAN : \E second \in BOOLEAN :
       /\ terminate_read_packet_thread_' = FALSE
       /\ queue_consumer_thread_' = "thread"
       /\ consumer_pc' = "dequeue"
       /\ read_socket_' = "socket"
       /\ IF first \/ second
            THEN /\ read_packet_thread_' = "thread"
                 /\ reader_pc' = "loop"
                 /\ returned' = "start"
            ELSE /\ UNCHANGED <<read_packet_thread_, reader_pc>>
                 /\ returned' = "start_failed"
       /\ resources' =
            [resources EXCEPT
               !.starts = @ + 1,
               !.threads_new = @ + (IF first \/ second THEN 2 ELSE 1),
               !.sockets_new = @ + (IF first THEN 1 ELSE 2),
               !.sockets_deleted = @ + (IF first THEN 0 ELSE 1)]
  /\ stops' = 0
  /\ UNCHANGED <<reader_data, consumer_data, caller_pc, received>>
  /\ UNCHANGED <<asmVars, queueVars, destructing>>

\* read (): the test of the while loop (m8_client.cpp:101); the socket stays
\* open as long as the thread runs.  terminate_read_packet_thread_ is a plain
\* bool shared with stop (); the loop calls into the socket and the queue
\* between two tests, so each test reads the value stored last.
ReaderLoop ==
  /\ reader_pc = "loop"
  /\ reader_pc' = IF ~terminate_read_packet_thread_ /\ read_socket_ # "NULL"
                    THEN "read" ELSE "done"
  /\ UNCHANGED <<terminate_read_packet_thread_, read_packet_thread_,
                 queue_consumer_thread_, read_socket_, reader_data, consumer_pc,
                 consumer_data, caller_pc, returned, received>>
  /\ UNCHANGED <<asmVars, queueVars>>
  /\ UNCHANGED lifeVars

\* read (): boost::asio::read returns one packet of 6612 bytes (m8_client.cpp:105)
ReaderReadPacket ==
  /\ reader_pc = "read"
  /\ received < MaxPackets
  /\ received' = received + 1
  /\ reader_data' = <<StreamPacket(received + 1)>>
  /\ reader_pc' = "test"
  /\ UNCHANGED <<terminate_read_packet_thread_, read_packet_thread_,
                 queue_consumer_thread_, read_socket_, consumer_pc,
                 consumer_data, caller_pc, returned>>
  /\ UNCHANGED <<asmVars, queueVars>>
  /\ UNCHANGED lifeVars

\* read (): boost::asio::read throws system_error (m8_client.cpp:108-112)
ReaderReadError ==
  /\ reader_pc = "read"
  /\ terminate_read_packet_thread_' = TRUE
  /\ reader_pc' = "loop"
  /\ UNCHANGED <<read_packet_thread_, queue_consumer_thread_, read_socket_,
                 reader_data, consumer_pc, consumer_data, caller_pc, returned,
                 received>>
  /\ UNCHANGED <<asmVars, queueVars>>
  /\ UNCHANGED lifeVars

\* enqueueM8Packet: the size tests (m8_client.cpp:77-88); read () always passes
\* 6612 bytes
ReaderTestSize ==
  /\ reader_pc = "test"
  /\ IF QueueOverLimit
       THEN /\ dropped_packets_' = dropped_packets_ + 1
            /\ reader_pc' = "loop"
            /\ reader_data' = <<>>
       ELSE /\ reader_pc' = "enqueue"
            /\ UNCHANGED <<dropped_packets_, reader_data>>
  /\ pushes' = pushes + 1
  /\ UNCHANGED <<queue_, request_to_end_, enqueue_data_, accepted, shutdown_mark,
                 bad_pushes, pops>>
  /\ UNCHANGED <<terminate_read_packet_thread_, read_packet_thread_,
                 queue_consumer_thread_, read_socket_, consumer_pc,
                 consumer_data, caller_pc, returned, received>>
  /\ UNCHANGED asmVars
  /\ UNCHANGED lifeVars

\* enqueueM8Packet: the copy is enqueued (m8_client.cpp:89-91)
ReaderEnqueue ==
  /\ reader_pc = "enqueue"
  /\ queue_' = Enqueued(reader_data[1])
  /\ accepted' = IF enqueue_data_ THEN Append(accepted, reader_data[1]) ELSE accepted
  /\ reader_data' = <<>>
  /\ reader_pc' = "loop"
  /\ UNCHANGED <<request_to_end_, enqueue_data_, dropped_packets_, shutdown_mark,
                 pushes, bad_pushes, pops>>
  /\ UNCHANGED <<terminate_read_packet_thread_, read_packet_thread_,
                 queue_consumer_thread_, read_socket_, consumer_pc,
                 consumer_data, caller_pc, returned, received>>
  /\ UNCHANGED asmVars
  /\ UNCHANGED lifeVars

\* processM8Packets (): data_queue_.dequeue (data)  (m8_client.cpp:124-125)
ConsumerDequeue ==
  /\ consumer_pc = "dequeue"
  /\ DequeueReady
  /\ queue_' = Dequeued
  /\ IF DequeueSucceeds
       THEN /\ consumer_data' = <<DequeueFront>>
            /\ consumer_pc' = "process"
            /\ pops' = pops + 1
            /\ UNCHANGED enqueue_data_
       ELSE /\ enqueue_data_' = FALSE
            /\ consumer_pc' = "done"
            /\ UNCHANGED <<consumer_data, pops>>
  /\ UNCHANGED <<request_to_end_, dropped_packets_, accepted, shutdown_mark,
                 pushes, bad_pushes>>
  /\ UNCHANGED <<terminate_read_packet_thread_, read_packet_thread_,
                 queue_consumer_thread_, read_socket_, reader_pc, reader_data,
                 caller_pc, returned, received>>
  /\ UNCHANGED asmVars
  /\ UNCHANGED lifeVars

\* processM8Packets (): toPointClouds (data); free (data)  (m8_client.cpp:127-128)
ConsumerProcess ==
  /\ consumer_pc = "process"
  /\ ToPointClouds(consumer_data[1])
  /\ consumer_data' = <<>>
  /\ consumer_pc' = "dequeue"
  /\ UNCHANGED <<terminate_read_packet_thread_, read_packet_thread_,
                 queue_consumer_thread_, read_socket_, reader_pc, reader_data,
                 caller_pc, returned, received>>
  /\ UNCHANGED queueVars
  /\ UNCHANGED lifeVars

\* stop (): terminate_read_packet_thread_ = true  (m8_client.cpp:347)
StopFlag ==
  /\ caller_pc = "idle"
  /\ terminate_read_packet_thread_' = TRUE
  /\ caller_pc' = "stop_queue"
  /\ UNCHANGED <<read_packet_thread_, queue_consumer_thread_, read_socket_,
                 reader_pc, reader_data, consumer_pc, consumer_data, returned,
                 received>>
  /\ UNCHANGED <<asmVars, queueVars, lifeVars>>

\* ~M8Client () calls stop ()  (m8_client.cpp:46, 347)
Destructor ==
  /\ caller_pc = "idle"
  /\ destructing' = TRUE
  /\ terminate_read_packet_thread_' = TRUE
  /\ caller_pc' = "stop_queue"
  /\ UNCHANGED <<read_packet_thread_, queue_consumer_thread_, read_socket_,
                 reader_pc, reader_data, consumer_pc, consumer_data, returned,
                 received>>
  /\ UNCHANGED <<asmVars, queueVars, resources, stops>>

\* stop (): data_queue_.stopQueue ()  (m8_client.cpp:348)
StopQueue ==
  /\ caller_pc = "stop_queue"
  /\ request_to_end_' = TRUE
  /\ shutdown_mark' = IF shutdown_mark < 0 THEN Len(accepted) ELSE shutdown_mark
  /\ caller_pc' = "stop_reader"
  /\ UNCHANGED <<queue_, enqueue_data_, dropped_packets_, accepted, pushes,
                 bad_pushes, pops>>
  /\ UNCHANGED <<terminate_read_packet_thread_, read_packet_thread_,
                 queue_consumer_thread_, read_socket_, reader_pc, reader_data,
                 consumer_pc, consumer_data, returned, received>>
  /\ UNCHANGED asmVars
  /\ UNCHANGED lifeVars

\* stop () going on without waiting for the reader thread
StopDetachReader ==
  /\ caller_pc = "stop_reader"
  /\ read_packet_thread_' = "NULL"
  /\ caller_pc' = "stop_consumer"
  /\ UNCHANGED <<terminate_read_packet_thread_, queue_consumer_thread_,
                 read_socket_, reader_pc, reader_data, consumer_pc, consumer_data,
                 returned, received>>
  /\ UNCHANGED <<asmVars, queueVars, lifeVars>>

\* stop (): interrupt and join the reader thread (m8_client.cpp:350-356).
\* interrupt () takes effect only at an interruption point of Boost.Thread;
\* read () has none (a blocking socket read and a mutex lock are not), so the
\* join returns when read () has left its loop.
StopJoinReader ==
  /\ caller_pc = "stop_reader"
  /\ IF read_packet_thread_ # "NULL"
       THEN /\ reader_pc = "done"
            /\ read_packet_thread_' = "NULL"
            /\ reader_pc' = "none"
            /\ resources' = [resources EXCEPT !.threads_deleted = @ + 1]
       ELSE UNCHANGED <<read_packet_thread_, reader_pc, resources>>
  /\ caller_pc' = "stop_consumer"
  /\ UNCHANGED <<terminate_read_packet_thread_, queue_consumer_thread_,
                 read_socket_, reader_data, consumer_pc, consumer_data, returned,
                 received>>
  /\ UNCHANGED <<asmVars, queueVars, destructing, stops>>

\* stop (): join the queue-consumer thread (m8_client.cpp:358-363)
StopJoinConsumer ==
  /\ caller_pc = "stop_consumer"
  /\ IF queue_consumer_thread_ # "NULL"
       THEN /\ consumer_pc = "done"
            /\ queue_consumer_thread_' = "NULL"
            /\ consumer_pc' = "none"
            /\ resources' = [resources EXCEPT !.threads_deleted = @ + 1]
       ELSE UNCHANGED <<queue_consumer_thread_, consumer_pc, resources>>
  /\ caller_pc' = "stop_socket"
  /\ UNCHANGED <<terminate_read_packet_thread_, read_packet_thread_,
                 read_socket_, reader_pc, reader_data, consumer_data, returned,
                 received>>
  /\ UNCHANGED <<asmVars, queueVars, destructing, stops>>

\* stop () deleting the socket and leaving read_socket_ as it is
StopSocketKeepPointer ==
  /\ caller_pc = "stop_socket"
  /\ resources' = IF read_socket_ # "NULL"
                    THEN [resources EXCEPT !.sockets_deleted = @ + 1]
                    ELSE resources
  /\ caller_pc' = IF destructing THEN "disconnect" ELSE "idle"
  /\ returned' = "stop"
  /\ stops' = IF stops < MaxStopsCounted THEN stops + 1 ELSE stops
  /\ UNCHANGED <<terminate_read_packet_thread_, read_packet_thread_,
                 queue_consumer_thread_, read_socket_, reader_pc, reader_data,
                 consumer_pc, consumer_data, received>>
  /\ UNCHANGED <<asmVars, queueVars, destructing>>

\* stop (): delete read_socket_ and return (m8_client.cpp:365-370)
StopSocket ==
  /\ caller_pc = "stop_socket"
  /\ IF read_socket_ # "NULL"
       THEN /\ read_socket_' = "NULL"
            /\ resources' = [resources EXCEPT !.sockets_deleted = @ + 1]
       ELSE UNCHANGED <<read_socket_, resources>>
  /\ caller_pc' = IF destructing THEN "disconnect" ELSE "idle"
  /\ returned' = "stop"
  /\ stops' = IF stops < MaxStopsCounted THEN stops + 1 ELSE stops
  /\ UNCHANGED <<terminate_read_packet_thread_, read_packet_thread_,
                 queue_consumer_thread_, reader_pc, reader_data, consumer_pc,
                 consumer_data, received>>
  /\ UNCHANGED <<asmVars, queueVars, destructing>>

\* ~M8Client (): disconnect_all_slots (m8_client.cpp:48); the object is gone
DisconnectSlots ==
  /\ caller_pc = "disconnect"
  /\ num_slots' = 0
  /\ caller_pc' = "destroyed"
  /\ returned' = "destructor"
  /\ UNCHANGED <<last_azimuth_, scan_counter_, sweep_counter_,
                 current_sweep_xyzi_, fired, num_fired, fed, organize_arg,
                 allocated, delivered_objs, max_lookup, crashed>>
  /\ UNCHANGED <<terminate_read_packet_thread_, read_packet_thread_,
                 queue_consumer_thread_, read_socket_, reader_pc, reader_data,
                 consumer_pc, consumer_data, received>>
  /\ UNCHANGED <<queueVars, lifeVars>>

Next ==
  \/ Start
  \/ ReaderLoop
  \/ ReaderReadPacket
  \/ ReaderReadError
  \/ ReaderTestSize
  \/ ReaderEnqueue
  \/ ConsumerDequeue
  \/ ConsumerProcess
  \/ StopFlag
  \/ Destructor
  \/ StopQueue
  \/ StopJoinReader
  \/ StopJoinConsumer
  \/ StopSocket
  \/ DisconnectSlots

Spec == Init /\ [][Next]_vars

\* A fair scheduler lets every thread that can take a step take it.  Whether
\* the sensor sends another packet or the connection breaks (ReaderReadPacket,
\* ReaderReadError) and whether the caller calls start () or stop () is not up
\* to the scheduler.
Fairness ==
  /\ WF_vars(ReaderLoop)
  /\ WF_vars(ReaderTestSize)
  /\ WF_vars(ReaderEnqueue)
  /\ WF_vars(ConsumerDequeue)
  /\ WF_vars(ConsumerProcess)
  /\ WF_vars(StopQueue)
  /\ WF_vars(StopJoinReader)
  /\ WF_vars(StopJoinConsumer)
  /\ WF_vars(StopSocket)
  /\ WF_vars(DisconnectSlots)

LiveSpec == Init /\ [][Next]_vars /\ Fairness

----------------------------------------------------------------------------
(* Claims                                                                  *)

\* the azimuths of all firings fed so far, in order (received positions)
FedAzimuth(n) ==
  AzimuthAngle(Position(fed[((n - 1) \div M8_FIRING_PER_PKT) + 1],
                        (n - 1) % M8_FIRING_PER_PKT))

NumFedFirings == Len(fed) * M8_FIRING_PER_PKT

\* firing n is the first of a new traversal: the azimuth fell back
WrapAt(n) == n > 1 /\ FedAzimuth(n) < FedAzimuth(n - 1)

WrapsUpTo(n) == Cardinality({m \in 1..n : WrapAt(m)})

\* the first firing of the traversal firing n belongs to
TraversalStart(n) ==
  IF \E m \in 1..n : WrapAt(m) THEN CHOOSE m \in 1..n :
       WrapAt(m) /\ \A k \in (m + 1)..n : ~WrapAt(k)
  ELSE 1

\* every packet fed is a spinning packet whose positions advance, and the
\* azimuth of the stream only ever falls back from above 179 to below -179 degrees
ForwardStream ==
  /\ \A k \in 1..Len(fed) : fed[k].delta >= M8_FIRING_PER_PKT \div 10
  /\ \A n \in 1..NumFedFirings :
        WrapAt(n) => /\ FedAzimuth(n - 1) >= 179 * M8_NUM_ROT_ANGLES
                     /\ FedAzimuth(n) <= -179 * M8_NUM_ROT_ANGLES

\* C1: on a stream of forward-spinning packets a sweep is delivered exactly at
\* the firings where the azimuth wraps from +180 back to -180 degrees, none
\* while the azimuth is still increasing, and the cloud under construction
\* holds 8 points for every firing since the last wrap.
C1_OneSweepPerTraversal ==
  (num_slots > 0 /\ Len(fed) > 0 /\ ForwardStream) =>
     /\ num_fired = WrapsUpTo(NumFedFirings)
     /\ sweep_counter_ = num_fired
     /\ Len(current_sweep_xyzi_.points)
          = M8_NUM_LASERS * (NumFedFirings - TraversalStart(NumFedFirings) + 1)

\* the encoder moved forward from position a to position b, through zero or not
AdvancedForward(a, b) ==
  LET d == (b - a) % M8_NUM_ROT_ANGLES
  IN d > 0 /\ d < M8_NUM_ROT_ANGLES \div 2

\* C2: for every spinning packet the direction is +1 exactly when the encoder
\* advanced forward from the first to the last firing, wraparound included.
C2_DirectionIsForward ==
  \A k \in 1..Len(fed) :
     Spin(fed[k]) =>
       ((Direction(fed[k]) = 1)
          <=> AdvancedForward(Position(fed[k], 0),
                              Position(fed[k], M8_FIRING_PER_PKT - 1)))

Occurrences(seq, x) == Cardinality({i \in 1..Len(seq) : seq[i] = x})

Elements(seq) == {seq[i] : i \in 1..Len(seq)}

\* C3: organizeCloud is a permutation into ring-major order: same length, same
\* multiset of points, output[(7 - laser) * W + firing] = input[firing * 8 +
\* laser], height 8 and width W.
C3_OrganizeIsPermutation ==
  organize_arg # <<>> =>
    LET in == organize_arg[1].points
        out == current_sweep_xyzi_.points
        W == Len(in) \div 8
    IN /\ Len(out) = Len(in)
       /\ \A x \in Elements(in) \cup Elements(out) :
             Occurrences(in, x) = Occurrences(out, x)
       /\ \A laser \in 0..7 : \A firing \in 0..(W - 1) :
             out[(7 - laser) * W + firing + 1] = in[firing * 8 + laser + 1]
       /\ current_sweep_xyzi_.height = 8
       /\ current_sweep_xyzi_.width = W

\* organizeCloud has run on a sweep of three firings or more, two of them at
\* the same position
C3_Witness ==
  /\ organize_arg # <<>>
  /\ Len(organize_arg[1].points) >= 24
  /\ organize_arg[1].points[1] = organize_arg[1].points[9]
  /\ organize_arg[1].points[1] # organize_arg[1].points[17]

\* C4: the queue depth never exceeds the capacity of 1000, and N > 1000 pushes
\* of 6612-byte packets with no pop in between leave exactly N - 1000 packets
\* dropped and a depth of 1000.
C4_DepthWithinCapacity ==
  /\ QueueSize <= QUEUE_LIMIT
  /\ (pops = 0 /\ pushes > QUEUE_LIMIT) =>
        /\ dropped_packets_ = pushes - QUEUE_LIMIT
        /\ QueueSize = QUEUE_LIMIT

\* seq a is the beginning of seq b
IsPrefix(a, b) ==
  /\ Len(a) <= Len(b)
  /\ \A i \in 1..Len(a) : a[i] = b[i]

\* the packets the consumer thread has taken from the queue, in order
Taken == fed \o consumer_data

\* C5: packets are decoded in the order in which they were enqueued: the
\* packets passed to toPointClouds so far are the first packets accepted.
C5_DecodedInArrivalOrder ==
  /\ IsPrefix(Taken, accepted)
  /\ Len(fed) + Len(consumer_data) = pops

\* one packet has been decoded, the consumer thread holds the next one and a
\* third one is queued behind it
C5_Witness ==
  /\ Len(fed) >= 1
  /\ consumer_data # <<>>
  /\ Len(queue_) >= 1

\* C6: the assembler loop ends only when the queue is shut down and empty:
\* when the consumer thread has left its loop, every packet accepted before
\* stopQueue has been decoded.
C6_DrainedBeforeExit ==
  consumer_pc = "done" =>
     /\ request_to_end_
     /\ shutdown_mark >= 0
     /\ Len(fed) >= shutdown_mark

\* where the caller is while it executes stop ()
StopSteps == {"stop_queue", "stop_reader", "stop_consumer", "stop_socket"}

\* C7: stop() always returns.
C7_StopReturns == (caller_pc \in StopSteps) ~> (caller_pc \notin StopSteps)

\* C8: when both connection attempts fail, start() has launched no thread and
\* isRunning() is false.
C8_NoThreadAfterFailedStart ==
  returned = "start_failed" =>
     /\ queue_consumer_thread_ = "NULL"
     /\ read_packet_thread_ = "NULL"
     /\ consumer_pc = "none"
     /\ reader_pc = "none"
     /\ ~IsRunning

\* the thread running read () has been started and has not left read ()
ReaderAlive == reader_pc \notin {"none", "done"}

\* C9: whenever the caller can call isRunning() (no stop() is under way), it
\* is true exactly when the queue is non-empty or the reader thread is alive;
\* so it is false once the reader has ended on an I/O error and the queue is
\* empty.
C9_RunningIffQueuedOrReading ==
  caller_pc = "idle" => (IsRunning <=> (~QueueIsEmpty \/ ReaderAlive))

\* C10: after stop() has returned both threads have terminated, the queue is
\* empty and isRunning() is false.
C10_AllStoppedAfterStop ==
  returned = "stop" =>
     /\ reader_pc = "none"
     /\ consumer_pc = "none"
     /\ read_packet_thread_ = "NULL"
     /\ queue_consumer_thread_ = "NULL"
     /\ QueueIsEmpty
     /\ ~IsRunning

\* stop() has returned on a client whose threads had queued and decoded a
\* packet and had another one queued when the queue was shut down
C10_Witness ==
  /\ returned = "stop"
  /\ caller_pc = "idle"
  /\ Len(fed) >= 1
  /\ Len(accepted) > Len(fed)

\* the members of the client and the state of its two threads
ClientState ==
  <<terminate_read_packet_thread_, read_packet_thread_, queue_consumer_thread_,
    read_socket_, reader_pc, reader_data, consumer_pc, consumer_data, queue_,
    request_to_end_, enqueue_data_, dropped_packets_, last_azimuth_,
    scan_counter_, sweep_counter_, current_sweep_xyzi_, num_slots>>

\* C11: stop() is idempotent.  No more threads are joined than were created
\* and no more sockets freed than were created; and a stop() called after a
\* stop() has returned (by the caller or by the destructor, on a client that
\* was started or never started) joins no thread, frees no socket and leaves
\* the client in the state the first call left it in.
C11_StopIdempotent ==
  /\ [](/\ resources.threads_deleted <= resources.threads_new
        /\ resources.sockets_deleted <= resources.sockets_new)
  /\ [][(returned = "stop" /\ returned' = "stop")
          => (ClientState' = ClientState /\ resources' = resources)]_vars

\* a second stop() has returned on a client whose threads had run and were
\* joined by the first one
C11_Witness ==
  /\ caller_pc = "idle"
  /\ returned = "stop"
  /\ stops >= 2
  /\ resources.threads_deleted = 2
  /\ resources.sockets_deleted >= 1
  /\ Len(fed) >= 1

\* calls of enqueueM8Packet that put nothing in the queue (one thread calling)
RejectedPushes == bad_pushes + (pushes - Len(accepted))

C13_NoEmptySweepDelivered ==
  \A k \in 1..Len(fired) :
     /\ Len(fired[k].points) > 0
     /\ Len(fired[k].points) % M8_NUM_LASERS = 0
     /\ fired[k].height = M8_NUM_LASERS
     /\ fired[k].width * M8_NUM_LASERS = Len(fired[k].points)

\* the first packet given to a new client was processed with direction +1, so
\* that its first firing was a boundary (every azimuth is below 65000) on the
\* empty cloud of the constructor; that boundary delivered nothing, each of the
\* 49 boundaries after it delivered a sweep
C13_Witness ==
  /\ Len(fed) = 1
  /\ Direction(fed[1]) = 1
  /\ Spin(fed[1])
  /\ num_slots > 0
  /\ Len(fired) = M8_FIRING_PER_PKT - 1
  /\ allocated = M8_FIRING_PER_PKT

\* C14: the sequence numbers of the delivered sweeps are consecutive: the
\* sweep counter is the number of sweeps completed so far (one for each
\* boundary, less the boundary that found the empty cloud of the constructor;
\* with a subscriber: the number delivered), and each sweep delivered by the
\* last call carries the value the counter had before the increment made for it.
C14_SequenceNumbersConsecutive ==
  /\ sweep_counter_ >= num_fired
  /\ sweep_counter_ <= allocated
  /\ allocated <= sweep_counter_ + 1
  /\ num_slots > 0 =>
       /\ sweep_counter_ = num_fired
       /\ \A k \in 1..Len(fired) :
            fired[k].seq = sweep_counter_ - Len(fired) + k - 1

\* sweeps have been delivered by two calls of toPointClouds, the second call
\* continuing the numbers of the first
C14_Witness ==
  /\ Len(fed) = 2
  /\ Len(fired) >= 2
  /\ num_fired > Len(fired)
  /\ fired[1].seq = num_fired - Len(fired)
  /\ fired[1].seq > 0

\* C15: a sweep is not written after it was handed to the subscriber: the
\* object toPointClouds appends to (and organizes and stamps) is none of the
\* objects delivered, and each delivery hands over another object.
C15_DeliveredSweepNotReused ==
  /\ current_sweep_xyzi_.obj \notin delivered_objs
  /\ current_sweep_xyzi_.obj = allocated
  /\ Cardinality(delivered_objs) = num_fired
  /\ \A k \in 1..Len(fired) : fired[k].obj \in delivered_objs

\* sweeps have been delivered and firings were appended after the last delivery
C15_Witness ==
  /\ Cardinality(delivered_objs) >= 2
  /\ Len(current_sweep_xyzi_.points) > M8_NUM_LASERS
  /\ Len(fed) >= 2

\* a step of the reader thread: a call of enqueueM8Packet
ReaderStep == pushes' # pushes \/ bad_pushes' # bad_pushes

\* a step of the assembler thread: a dequeue or a call of toPointClouds
AssemblerStep == pops' # pops \/ fed' # fed

\* the assembly state processM8Packets works on
AssemblyState ==
  <<last_azimuth_, scan_counter_, sweep_counter_, current_sweep_xyzi_>>

\* C16 as stated: the reader thread writes none of last azimuth, scan counter,
\* sweep counter, dropped-packet counter and sweep under construction.
C16_ReaderWritesNoCounter ==
  [][ReaderStep => UNCHANGED <<AssemblyState, dropped_packets_>>]_vars

\* C16 amended: the reader thread writes none of last azimuth, scan counter,
\* sweep counter and sweep under construction, and the assembler thread does
\* not write the dropped-packet counter, which only the reader thread writes.
C16_SingleWriterPerMember ==
  /\ [][ReaderStep => UNCHANGED AssemblyState]_vars
  /\ [][AssemblerStep => UNCHANGED dropped_packets_]_vars
  /\ [][dropped_packets_' # dropped_packets_ => ReaderStep]_vars

\* the reader thread has dropped a packet and the assembler thread has built
\* a sweep
C16_Witness ==
  /\ dropped_packets_ >= 1
  /\ Len(fed) >= 1
  /\ sweep_counter_ >= 1

\* C17: whatever 16-bit positions the firings of a packet carry, toPointClouds
\* completes and every index used on the cosine and sine tables is in 0..10400.
C17_LookupIndexInRange ==
  /\ max_lookup <= M8_NUM_ROT_ANGLES
  /\ ~crashed

\* C18: a push onto a queue that holds 1000 buffers or more leaves the buffers
\* already queued where they are (at most the arriving one is added behind
\* them; when a buffer is dropped it is the arriving one, and it is counted),
\* and enqueueM8Packet never waits: it can be called in every state.
C18_FullQueueDropsNewest ==
  /\ [][(pushes' # pushes /\ QueueSize >= QUEUE_LIMIT)
          => /\ IsPrefix(queue_, queue_')
             /\ Len(queue_') <= Len(queue_) + 1
             /\ QueueOverLimit =>
                  /\ queue_' = queue_
                  /\ dropped_packets_' = dropped_packets_ + 1]_vars
  /\ [](pushes < MaxPushes => ENABLED Push)

\* a push has been dropped and the queue still holds the 1001 buffers pushed
\* before it
C18_Witness ==
  /\ dropped_packets_ >= 1
  /\ QueueOverLimit
  /\ pops = 0
  /\ queue_ = SubSeq(accepted, 1, QUEUE_LIMIT + 1)

\* firing n is the first of a new rotation in reverse: the azimuth jumped up
WrapUpAt(n) == n > 1 /\ FedAzimuth(n) > FedAzimuth(n - 1)

WrapsUpUpTo(n) == Cardinality({m \in 1..n : WrapUpAt(m)})

\* every packet fed is a spinning packet whose positions go down, and the
\* azimuth of the stream only ever jumps up from below -179 to above 179 degrees
ReverseStream ==
  /\ \A k \in 1..Len(fed) : fed[k].delta <= -(M8_FIRING_PER_PKT \div 10)
  /\ \A n \in 1..NumFedFirings :
        WrapUpAt(n) => /\ FedAzimuth(n - 1) <= -179 * M8_NUM_ROT_ANGLES
                       /\ FedAzimuth(n) >= 179 * M8_NUM_ROT_ANGLES

\* C19: on a stream of packets spinning in reverse one sweep is completed per
\* rotation, at the firing where the azimuth jumps from -180 up to +180
\* degrees, and none at the firings of a packet whose positions pass through
\* zero.
C19_OneSweepPerReverseRotation ==
  (num_slots > 0 /\ Len(fed) > 0 /\ ReverseStream) =>
     /\ num_fired = WrapsUpUpTo(NumFedFirings)
     /\ sweep_counter_ = num_fired

\* packets per sweep of a sensor that does not spin: 1000 / 50
PacketsPerStaticSweep == STATIC_MODULUS \div M8_FIRING_PER_PKT

\* (scan * 50 + i) mod 1000 over the integers
SynthesizedPosition(scan, i) ==
  ((scan % PacketsPerStaticSweep) * M8_FIRING_PER_PKT + i) % STATIC_MODULUS

\* the packets fed, but the first, at whose first firing the synthesized
\* position is back at 0
StaticWraps ==
  {k \in 2..Len(fed) : SynthesizedPosition(scan_counter_ - Len(fed) + k, 0) = 0}

\* C20: on a stream of stationary packets the direction is +1, firing i of a
\* packet gets position (scan_counter * 50 + i) mod 1000, so that the cloud
\* under construction holds the firings at positions ..., p - 1, p up to the
\* last position synthesized (the azimuth never fell inside it), a sweep was
\* delivered exactly where the position wrapped from 999 to 0 (one per 20
\* packets), and every delivered sweep after the first holds 8000 points.
C20_StaticSweepOf1000Firings ==
  (num_slots > 0 /\ Len(fed) > 0) =>
    LET pts == current_sweep_xyzi_.points
        n == Len(pts) \div M8_NUM_LASERS
        last == SynthesizedPosition(scan_counter_, M8_FIRING_PER_PKT - 1)
    IN /\ \A k \in 1..Len(fed) : ~Spin(fed[k]) /\ Direction(fed[k]) = 1
       /\ n >= M8_FIRING_PER_PKT
       /\ \A f \in 1..n : pts[f * M8_NUM_LASERS].position = last - (n - f)
       /\ num_fired = Cardinality(StaticWraps)
       /\ \A k \in 1..Len(fired) :
            fired[k].seq >= 1 =>
               Len(fired[k].points) = STATIC_MODULUS * M8_NUM_LASERS

====
